---------------------------- MODULE Spec2Model ----------------------------
(***************************************************************************)
(* A model of trading_bot.py: the signal parser (SignalParser.parse_signal),*)
(* the order sizer/dispatcher (BybitTrader.place_order with set_leverage    *)
(* and get_account_balance) and the message handler of the bot that feeds   *)
(* the parser (TradingBot.handle_message).                                  *)
(*                                                                          *)
(* Numbers.  Python floats are modelled by exact scaled integers: wallet    *)
(* balances and prices of the order pipeline are whole USDT, a quantity is  *)
(* an integer number of 10^-6 units (the code rounds to 6 decimals).        *)
(* Optional values (Optional[float]) are <<>> for None and <<v>> for v.     *)
(* A Python dict is a TLA+ function (record) whose DOMAIN is its key set.   *)
(***************************************************************************)
EXTENDS Integers, Sequences, FiniteSets, TLC

VARIABLES
    pc,             \* position of the place_order attempt: the next venue call
    signal,         \* the TradingSignal object handed to place_order (mutable)
    signal0,        \* its field values when place_order was called
    user_leverage,  \* argument user_leverage of place_order
    user_risk,      \* argument user_risk of place_order
    usdt_balance,   \* local usdt_balance of place_order
    calls,          \* venue calls made in this attempt, with their responses
    exc,            \* the exception raised inside place_order's try block, if any
    outcome,        \* "none", "returned", or "propagated" (an exception escaped)
    result          \* the dict returned by place_order (<<>> until it returns)

ordervars == <<pc, signal, signal0, user_leverage, user_risk, usdt_balance,
               calls, exc, outcome, result>>

VARIABLES
    inbox,          \* the text messages the user has sent, not yet handled
    config,         \* the user's entry in config['users'] (None before /setup)
    user_data,      \* context.user_data of the user
    sent,           \* the confirmation messages sent, with their Execute button
    handled         \* the message handle_message ran on last, and what it parsed

botvars == <<inbox, config, user_data, sent, handled>>

vars == <<pc, signal, signal0, user_leverage, user_risk, usdt_balance,
          calls, exc, outcome, result, inbox, config, user_data, sent, handled>>

-----------------------------------------------------------------------------
(* Bounds of the model *)

\* the largest wallet balance the venue reports, in USDT
MaxBalance == 1000

\* the largest last-traded price the venue reports, in USDT
MaxPrice == 50000

\* the most lines of a message text
MaxLines == 3

\* the most signal messages of one run of the bot
MaxMessages == 2

-----------------------------------------------------------------------------
(* Program constants *)

\* round(qty, 6): 10^6 quantity units per unit of the underlying
QtyScale == 1000000

\* user_risk / 100
PercentBase == 100

\* the leverage buttons of the settings menu and the default leverage
LeverageChoices == {5, 10, 20, 25, 50}

\* the risk buttons of the settings menu and the default risk
RiskChoices == {1, 2, 5, 10}

-----------------------------------------------------------------------------
(* Python values *)

None == <<>>
Some(v) == <<v>>

\* the dict {}
EmptyDict == [k \in {} |-> 0]

\* the outcome of evaluating code that may raise
Ok(v) == [ok |-> TRUE, val |-> v]
Raise(t, m) == [ok |-> FALSE, exc |-> [type |-> t, msg |-> m]]

\* the exception classes raised in place_order, all subclasses of Exception
ExceptionClasses ==
    {"Exception", "KeyError", "IndexError", "ValueError", "TypeError",
     "ZeroDivisionError", "FailedRequestError"}

-----------------------------------------------------------------------------
(* The signals place_order is called with: the values parse_signal produces *)

SignalSpace ==
    { [direction |-> d, symbol |-> "BTCUSDT", order_type |-> ot.t,
       entry_price |-> ot.p, take_profit |-> tp, stop_loss |-> sl,
       leverage |-> lr.l, risk_percentage |-> lr.r] :
        d \in {"LONG", "SHORT"},
        ot \in {[t |-> "MARKET", p |-> None], [t |-> "LIMIT", p |-> None],
                [t |-> "LIMIT", p |-> Some(0)], [t |-> "LIMIT", p |-> Some(45000)]},
        tp \in {0, 52000},
        sl \in {0, 48000},
        lr \in {[l |-> 10, r |-> 5], [l |-> 20, r |-> 3]} }

-----------------------------------------------------------------------------
(* The venue: every response a call can get *)

\* session.set_leverage: raises, or returns a dict with or without retCode
LeverageResponses ==
    {[kind |-> "raise", keys |-> {}, retCode |-> 0]}
    \cup {[kind |-> "dict", keys |-> {"retCode"}, retCode |-> c] : c \in {0, 110043}}
    \cup {[kind |-> "dict", keys |-> {}, retCode |-> 0]}

\* session.get_wallet_balance: raises, or returns a dict.  keys are the dict's
\* top-level keys ({} is the dict without keys); body names the shape of its
\* 'result': "none" when there is no result, "no_list" a result without
\* 'list' (what the venue sends with a non-success code), "empty_list" an
\* empty result list, "no_usdt" a coin list without USDT, "usdt_bad" a USDT
\* entry whose walletBalance is '' and "usdt" a USDT entry whose walletBalance
\* is wallet (negative for an account in debt)
BalanceResponses ==
    {[kind |-> "raise", keys |-> {}, retCode |-> 0, body |-> "none", wallet |-> 0]}
    \cup {[kind |-> "dict", keys |-> {}, retCode |-> 0, body |-> "none",
           wallet |-> 0]}
    \cup {[kind |-> "dict", keys |-> {"retCode"}, retCode |-> 10001,
           body |-> "none", wallet |-> 0]}
    \cup {[kind |-> "dict", keys |-> {"retCode", "result"}, retCode |-> 10001,
           body |-> "no_list", wallet |-> 0]}
    \cup {[kind |-> "dict", keys |-> {"retCode", "result"}, retCode |-> 0,
           body |-> b, wallet |-> 0] :
            b \in {"empty_list", "no_usdt", "usdt_bad"}}
    \cup {[kind |-> "dict", keys |-> {"retCode", "result"}, retCode |-> 0,
           body |-> "usdt", wallet |-> w] : w \in {-1, 0, 1, MaxBalance}}

\* session.get_tickers: raises, or returns a dict with or without retCode whose
\* result list is empty ("empty_list") or holds lastPrice ("price"), also
\* beside a non-success code
TickerResponses ==
    {[kind |-> "raise", keys |-> {}, retCode |-> 0, body |-> "empty_list",
      lastPrice |-> 0]}
    \cup {[kind |-> "dict", keys |-> {}, retCode |-> 0, body |-> "empty_list",
           lastPrice |-> 0]}
    \cup {[kind |-> "dict", keys |-> {"retCode"}, retCode |-> 10001,
           body |-> "empty_list", lastPrice |-> 0]}
    \cup {[kind |-> "dict", keys |-> {"retCode"}, retCode |-> 0,
           body |-> "empty_list", lastPrice |-> 0]}
    \cup {[kind |-> "dict", keys |-> {"retCode"}, retCode |-> 0,
           body |-> "price", lastPrice |-> p] : p \in {0, MaxPrice, 3 * MaxPrice}}
    \cup {[kind |-> "dict", keys |-> {"retCode"}, retCode |-> 10001,
           body |-> "price", lastPrice |-> MaxPrice]}

\* session.place_order: raises, or returns a dict with or without retCode
SubmitResponses ==
    {[kind |-> "raise", keys |-> {}, retCode |-> 0]}
    \cup {[kind |-> "dict", keys |-> {"retCode"}, retCode |-> c] : c \in {0, 110007}}
    \cup {[kind |-> "dict", keys |-> {}, retCode |-> 0]}

\* the message of an exception the venue client raises
VenueErrorMsg == "venue request failed"

-----------------------------------------------------------------------------
(* Text: a Python str is the sequence of its characters *)

UpperLetters == <<"A", "B", "C", "D", "E", "F", "G", "H", "I", "J", "K", "L", "M", "N", "O", "P", "Q", "R", "S", "T", "U", "V", "W", "X", "Y", "Z">>
LowerLetters == <<"a", "b", "c", "d", "e", "f", "g", "h", "i", "j", "k", "l", "m", "n", "o", "p", "q", "r", "s", "t", "u", "v", "w", "x", "y", "z">>
DigitChars == <<"0", "1", "2", "3", "4", "5", "6", "7", "8", "9">>

\* the characters \s matches
Whitespace == {" ", "\n", "\t"}

\* the characters \d matches
Digit == {DigitChars[i] : i \in 1..Len(DigitChars)}

\* the characters [A-Z0-9] matches
Alnum == {UpperLetters[i] : i \in 1..Len(UpperLetters)} \cup Digit

\* the characters [\d.] matches
DigitOrDot == Digit \cup {"."}

IsAlnum(c) == c \in Alnum

IsDigit(c) == c \in Digit

IsSpace(c) == c \in Whitespace

\* str.upper() of one character
UpperChar(c) ==
    IF \E i \in 1..Len(LowerLetters) : LowerLetters[i] = c
    THEN UpperLetters[CHOOSE i \in 1..Len(LowerLetters) : LowerLetters[i] = c]
    ELSE c

\* str.upper()
Upper(s) == [i \in 1..Len(s) |-> UpperChar(s[i])]

\* str.strip()
Strip(s) ==
    LET keep == {i \in 1..Len(s) : ~IsSpace(s[i])} IN
    IF keep = {} THEN <<>>
    ELSE SubSeq(s, CHOOSE i \in keep : \A j \in keep : i <= j,
                   CHOOSE i \in keep : \A j \in keep : i >= j)

\* the literal lit occurs in s at index i
MatchAt(s, i, lit) ==
    /\ i >= 1
    /\ i + Len(lit) - 1 <= Len(s)
    /\ \A k \in 1..Len(lit) : s[i + k - 1] = lit[k]

\* lit in s
Contains(s, lit) == \E i \in 1..Len(s) : MatchAt(s, i, lit)

\* the least element of a non-empty set of indices (re.search: leftmost match)
Leftmost(S) == CHOOSE i \in S : \A j \in S : i <= j

\* the first of the indices stops, or the index after the end of s
FirstStop(s, stops) == IF stops = {} THEN Len(s) + 1 ELSE Leftmost(stops)

\* the end of the longest run of characters of class cls that starts at i: the
\* index after the run (i itself when s[i] is not of the class)
RunEnd(s, i, cls) == FirstStop(s, {j \in i..Len(s) : s[j] \notin cls})

\* int(tok) for a run of digits
RECURSIVE IntOf(_)
IntOf(tok) ==
    IF tok = <<>> THEN 0
    ELSE IntOf(SubSeq(tok, 1, Len(tok) - 1)) * 10
         + ((CHOOSE i \in 1..Len(DigitChars) : DigitChars[i] = tok[Len(tok)]) - 1)

\* a float as an exact decimal: num / 10^frac without trailing zeros
RECURSIVE Decimal(_, _)
Decimal(num, frac) ==
    IF frac > 0 /\ num % 10 = 0 THEN Decimal(num \div 10, frac - 1)
    ELSE [num |-> num, frac |-> frac]

\* the decimal with the digits of tok, its point at the index in dots
FloatOf(tok, digits, dots) ==
    IF Cardinality(dots) > 1 \/ digits = <<>>
    THEN Raise("ValueError", "could not convert string to float")
    ELSE Ok(Decimal(IntOf(digits),
                    IF dots = {} THEN 0 ELSE Len(tok) - (CHOOSE i \in dots : TRUE)))

\* float(tok) for a run of digits and dots: the value, or ValueError when tok
\* holds no digit or more than one dot
Float(tok) ==
    FloatOf(tok, SelectSeq(tok, IsDigit), {i \in 1..Len(tok) : tok[i] = "."})

-----------------------------------------------------------------------------
(* SignalParser.parse_signal *)

KwLong == <<"L", "O", "N", "G">>
KwShort == <<"S", "H", "O", "R", "T">>
SlashUsdt == <<"/", "U", "S", "D", "T">>
Usdt == <<"U", "S", "D", "T">>
KwLimitOrder == <<"L", "I", "M", "I", "T", " ", "O", "R", "D", "E", "R">>
KwLeverage == <<"L", "E", "V", "E", "R", "A", "G", "E", ":">>
KwTp == <<"T", "P", ":">>
KwSl == <<"S", "L", ":">>
KwUse == <<"U", "S", "E">>
KwOf == <<"O", "F">>
KwCapital == <<"C", "A", "P", "I", "T", "A", "L">>

\* TradingSignal(direction="", symbol="", order_type="MARKET") with the
\* dataclass defaults
DefaultSignal ==
    [direction |-> <<>>, symbol |-> <<>>, order_type |-> "MARKET",
     entry_price |-> None, take_profit |-> Decimal(0, 0),
     stop_loss |-> Decimal(0, 0), leverage |-> 10,
     risk_percentage |-> Decimal(5, 0)]

\* group 1 of a match of (LONG|SHORT) that starts at index i
DirectionAt(text, i) == IF MatchAt(text, i, KwLong) THEN KwLong ELSE KwShort

\* group 1 of the leftmost of the matches that start at the indices at
FirstDirection(text, at) ==
    IF at = {} THEN None ELSE Some(DirectionAt(text, Leftmost(at)))

\* re.search(r'(LONG|SHORT)', text): group 1 of the leftmost match, or None
direction_match(text) ==
    FirstDirection(text, {i \in 1..Len(text) :
                            MatchAt(text, i, KwLong) \/ MatchAt(text, i, KwShort)})

\* ([A-Z0-9]*)/USDT in place of ([A-Z0-9]+)/USDT: the token may be empty
SymbolAtOrEmpty(text, i) == MatchAt(text, RunEnd(text, i, Alnum), SlashUsdt)

\* ([A-Z0-9]+)/USDT matches at index i: the run of [A-Z0-9] from i is not
\* empty and /USDT follows it
SymbolAt(text, i) ==
    /\ IsAlnum(text[i])
    /\ MatchAt(text, RunEnd(text, i, Alnum), SlashUsdt)

\* group 1 of the leftmost of the matches that start at the indices at
FirstSymbol(text, at) ==
    IF at = {} THEN None
    ELSE Some(SubSeq(text, Leftmost(at), RunEnd(text, Leftmost(at), Alnum) - 1))

\* re.search(r'([A-Z0-9]+)/USDT', text): group 1 of the leftmost match, or None
symbol_match(text) == FirstSymbol(text, {i \in 1..Len(text) : SymbolAt(text, i)})

\* after a keyword that ends before index k, the whitespace run ends before
\* index v, where a character of the group's class cls stands; with spaces
\* the run is \s+, without it \s*
ValueFollows(text, k, v, spaces, cls) ==
    /\ spaces => v > k
    /\ v <= Len(text)
    /\ text[v] \in cls

\* kw, whitespace and a group of class cls match at index i
ValueAt(text, i, kw, spaces, cls) ==
    /\ MatchAt(text, i, kw)
    /\ ValueFollows(text, i + Len(kw), RunEnd(text, i + Len(kw), Whitespace),
                    spaces, cls)

\* the longest run of class cls from index v: the group, greedy
Group(text, v, cls) == SubSeq(text, v, RunEnd(text, v, cls) - 1)

\* group 1 of the leftmost of the matches that start at the indices at
FirstValue(text, kw, cls, at) ==
    IF at = {} THEN None
    ELSE Some(Group(text, RunEnd(text, Leftmost(at) + Len(kw), Whitespace), cls))

\* re.search(kw + r'\s+([\d.]+)', text) when spaces is TRUE and
\* re.search(kw + r'\s*([\d.]+)', text) when it is FALSE, with cls for the
\* class of the group: group 1 of the leftmost match, or None
value_match(text, kw, spaces, cls) ==
    FirstValue(text, kw, cls, {i \in 1..Len(text) : ValueAt(text, i, kw, spaces, cls)})

\* \s+CAPITAL: whitespace from index k to before index c, then CAPITAL
RiskCapital(text, k, c) == c > k /\ MatchAt(text, c, KwCapital)

\* \s+OF\s+CAPITAL: whitespace from index k to before index o, then the rest
RiskOf(text, k, o) ==
    /\ o > k
    /\ MatchAt(text, o, KwOf)
    /\ RiskCapital(text, o + Len(KwOf), RunEnd(text, o + Len(KwOf), Whitespace))

\* (\d+)%\s+OF\s+CAPITAL: digits from index n to before index p, then the rest
RiskPercent(text, n, p) ==
    /\ p > n
    /\ MatchAt(text, p, <<"%">>)
    /\ RiskOf(text, p + 1, RunEnd(text, p + 1, Whitespace))

\* \s+(\d+)%\s+OF\s+CAPITAL: whitespace from index k to before index n
RiskNumber(text, k, n) == n > k /\ RiskPercent(text, n, RunEnd(text, n, Digit))

\* USE\s+(\d+)%\s+OF\s+CAPITAL matches at index i
RiskAt(text, i) ==
    /\ MatchAt(text, i, KwUse)
    /\ RiskNumber(text, i + Len(KwUse), RunEnd(text, i + Len(KwUse), Whitespace))

\* group 1 of the leftmost of the matches that start at the indices at
FirstRisk(text, at) ==
    IF at = {} THEN None
    ELSE Some(Group(text, RunEnd(text, Leftmost(at) + Len(KwUse), Whitespace), Digit))

\* re.search(r'USE\s+(\d+)%\s+OF\s+CAPITAL', text): group 1, or None
risk_match(text) == FirstRisk(text, {i \in 1..Len(text) : RiskAt(text, i)})

\* signal.entry_price = float(limit_match.group(1))
SetEntryPrice(sig, f) ==
    IF f.ok THEN Ok([sig EXCEPT !.entry_price = Some(f.val)]) ELSE f

\* lines 131-134: a LIMIT order, with the price when limit_match matched
LimitOrder(sig, m) ==
    IF m = None THEN Ok([sig EXCEPT !.order_type = "LIMIT"])
    ELSE SetEntryPrice([sig EXCEPT !.order_type = "LIMIT"], Float(m[1]))

\* lines 129-136: order type and entry price; the exception of float() passes
WithOrderType(sig, text) ==
    IF Contains(text, KwLimitOrder)
    THEN LimitOrder(sig, value_match(text, KwLimitOrder, TRUE, DigitOrDot))
    ELSE Ok([sig EXCEPT !.order_type = "MARKET"])

\* lines 140-141
SetLeverageField(sig, m) ==
    IF m = None THEN Ok(sig) ELSE Ok([sig EXCEPT !.leverage = IntOf(m[1])])

\* lines 138-141: leverage
WithLeverage(sig, text) ==
    SetLeverageField(sig, value_match(text, KwLeverage, FALSE, Digit))

\* signal.take_profit = float(tp_match.group(1))
SetTakeProfit(sig, f) == IF f.ok THEN Ok([sig EXCEPT !.take_profit = f.val]) ELSE f

\* lines 145-146
TakeProfitField(sig, m) ==
    IF m = None THEN Ok(sig) ELSE SetTakeProfit(sig, Float(m[1]))

\* lines 143-146: take profit
WithTakeProfit(sig, text) ==
    TakeProfitField(sig, value_match(text, KwTp, FALSE, DigitOrDot))

\* signal.stop_loss = float(sl_match.group(1))
SetStopLoss(sig, f) == IF f.ok THEN Ok([sig EXCEPT !.stop_loss = f.val]) ELSE f

\* lines 150-151
StopLossField(sig, m) ==
    IF m = None THEN Ok(sig) ELSE SetStopLoss(sig, Float(m[1]))

\* lines 148-151: stop loss
WithStopLoss(sig, text) ==
    StopLossField(sig, value_match(text, KwSl, FALSE, DigitOrDot))

\* lines 155-156
RiskField(sig, m) ==
    IF m = None THEN Ok(sig)
    ELSE Ok([sig EXCEPT !.risk_percentage = Decimal(IntOf(m[1]), 0)])

\* lines 153-156: risk percentage
WithRisk(sig, text) == RiskField(sig, risk_match(text))

\* each statement runs on the signal unless an exception was raised before
ThenLeverage(r, text) == IF r.ok THEN WithLeverage(r.val, text) ELSE r
ThenTakeProfit(r, text) == IF r.ok THEN WithTakeProfit(r.val, text) ELSE r
ThenStopLoss(r, text) == IF r.ok THEN WithStopLoss(r.val, text) ELSE r
ThenRisk(r, text) == IF r.ok THEN WithRisk(r.val, text) ELSE r

\* lines 129-156: the optional fields in the order of the code
OptionalFields(sig, text) ==
    ThenRisk(ThenStopLoss(ThenTakeProfit(ThenLeverage(WithOrderType(sig, text),
                                                      text), text), text), text)

\* return signal
ReturnSignal(full) == IF full.ok THEN Ok(Some(full.val)) ELSE full

\* lines 119-158 with the two mandatory matches: None without a direction or
\* without a symbol, else the signal with its optional fields
ParseMatched(text, dm, sm) ==
    IF dm = None THEN Ok(None)
    ELSE IF sm = None THEN Ok(None)
    ELSE ReturnSignal(OptionalFields([DefaultSignal EXCEPT !.direction = dm[1],
                                                           !.symbol = sm[1] \o Usdt],
                                     text))

\* lines 118-158 on the cleaned text
ParseText(text) == ParseMatched(text, direction_match(text), symbol_match(text))

\* the body of the try block (lines 107-158): the value returned, or the
\* exception raised
ParseBody(raw) == ParseText(Strip(Upper(raw)))

\* except Exception: return None
NoneOnError(body) == IF body.ok THEN body.val ELSE None

\* parse_signal
parse_signal(raw) == NoneOnError(ParseBody(raw))

-----------------------------------------------------------------------------
(* BybitTrader.set_leverage *)

\* the keyword arguments of session.set_leverage
SetLeverageArgs(symbol, leverage) ==
    [category |-> "linear", symbol |-> symbol,
     buyLeverage |-> leverage, sellLeverage |-> leverage]

\* the value set_leverage returns; its try/except turns a raised call and a
\* missing retCode into False
SetLeverageReturn(resp) ==
    IF resp.kind = "raise" THEN FALSE
    ELSE IF "retCode" \notin resp.keys THEN FALSE
    ELSE resp.retCode = 0

-----------------------------------------------------------------------------
(* BybitTrader.get_account_balance *)

\* the snapshot get_account_balance returns: {} when the venue call raises
get_account_balance(resp) ==
    IF resp.kind = "raise"
    THEN [kind |-> "dict", keys |-> {}, retCode |-> 0, body |-> "none", wallet |-> 0]
    ELSE resp

-----------------------------------------------------------------------------
(* BybitTrader.place_order: the code between its venue calls *)

\* not balance or 'result' not in balance
BalanceMissing(balance) == balance.keys = {} \/ "result" \notin balance.keys

\* the scan of balance['result']['list'][0]['coin'] for the USDT entry
UsdtBalance(balance) ==
    CASE balance.body = "no_list" -> Raise("KeyError", "'list'")
      [] balance.body = "empty_list" -> Raise("IndexError", "list index out of range")
      [] balance.body = "usdt_bad" ->
            Raise("ValueError", "could not convert string to float: ''")
      [] balance.body = "usdt" -> Ok(balance.wallet)
      [] OTHER -> Ok(0)

\* a zero test that lets a zero balance through (usdt_balance < 0)
ZeroBalanceOnlyNegative(usdt) == usdt < 0

\* usdt_balance == 0
ZeroBalance(usdt) == usdt = 0

\* lines 190-202: the balance the sizing uses, or the exception raised
CheckedBalance(balance) ==
    IF BalanceMissing(balance)
    THEN Raise("Exception", "Could not fetch account balance")
    ELSE LET u == UsdtBalance(balance) IN
         IF ~u.ok THEN u
         ELSE IF ZeroBalance(u.val)
              THEN Raise("Exception", "No USDT balance found")
              ELSE u

\* a ticker test that takes every code for success
TickerNeverFailed(ticker) == FALSE

\* ticker['retCode'] != 0
TickerFailed(ticker) == ticker.retCode # 0

\* lines 209-212: the last-traded price, or the exception raised
CurrentPrice(resp) ==
    IF resp.kind = "raise" THEN Raise("FailedRequestError", VenueErrorMsg)
    ELSE IF "retCode" \notin resp.keys THEN Raise("KeyError", "'retCode'")
    ELSE IF TickerFailed(resp) THEN Raise("Exception", "Could not fetch ticker data")
    ELSE IF resp.body = "empty_list"
         THEN Raise("IndexError", "list index out of range")
         ELSE Ok(resp.lastPrice)

\* a backfill that writes the price into the wrong field
BackfillTakeProfit(sig, price) == [sig EXCEPT !.take_profit = price]

\* signal.entry_price = current_price
BackfillEntry(sig, price) == [sig EXCEPT !.entry_price = Some(price)]

\* truncation in place of rounding
RoundTruncated(n, d) == n \div d

\* round(x, 0) of the rational n / d (d > 0): to the nearest integer, a tie to
\* the even one
RoundHalfEven(n, d) ==
    LET q == n \div d
        r == n % d
    IN  IF 2 * r > d THEN q + 1
        ELSE IF 2 * r < d THEN q
        ELSE IF q % 2 = 0 THEN q ELSE q + 1

\* risk_amount = usdt_balance * (user_risk / 100), in hundredths of a USDT
RiskAmount(usdt, risk) == usdt * risk

\* round((risk_amount * leverage) / entry_price, 6) in 10^-6 units, for
\* entry_price > 0.  The quotient is split so that no product leaves 32 bits:
\* a * m / d = (a \div d) * m + ((a % d) * m) / d with m = 10^6 / 100 (even)
Qty(usdt, risk, leverage, entry_price) ==
    LET a == RiskAmount(usdt, risk) * leverage
        m == QtyScale \div PercentBase
    IN  (a \div entry_price) * m + RoundHalfEven((a % entry_price) * m, entry_price)

\* a quantity that takes a zero entry price for the highest price
QuantityDefaultPrice(sig, usdt, risk, leverage) ==
    IF sig.entry_price = None
    THEN Raise("TypeError", "unsupported operand type(s) for /: 'float' and 'NoneType'")
    ELSE IF sig.entry_price[1] = 0
         THEN Ok(Qty(usdt, risk, leverage, MaxPrice))
         ELSE Ok(Qty(usdt, risk, leverage, sig.entry_price[1]))

\* a quantity sized with the leverage and the risk of the signal
QuantityFromSignal(sig, usdt, risk, leverage) ==
    IF sig.entry_price = None
    THEN Raise("TypeError", "unsupported operand type(s) for /: 'float' and 'NoneType'")
    ELSE IF sig.entry_price[1] = 0
         THEN Raise("ZeroDivisionError", "float division by zero")
         ELSE Ok(Qty(usdt, sig.risk_percentage, sig.leverage, sig.entry_price[1]))

\* lines 216-219: the rounded quantity, or the exception the division raises
Quantity(sig, usdt, risk, leverage) ==
    IF sig.entry_price = None
    THEN Raise("TypeError", "unsupported operand type(s) for /: 'float' and 'NoneType'")
    ELSE IF sig.entry_price[1] = 0
         THEN Raise("ZeroDivisionError", "float division by zero")
         ELSE Ok(Qty(usdt, risk, leverage, sig.entry_price[1]))

\* side = "Buy" if signal.direction == "LONG" else "Sell"
Side(sig) == IF sig.direction = "LONG" THEN "Buy" ELSE "Sell"

\* if signal.take_profit > 0
HasTakeProfit(sig) == sig.take_profit > 0

\* a stop-loss test that reads the take-profit field
HasStopLossFromTakeProfit(sig) == sig.take_profit > 0

\* if signal.stop_loss > 0
HasStopLoss(sig) == sig.stop_loss > 0

\* order_params with a price for every order type
OrderKeysAlwaysPrice(sig) ==
    {"category", "symbol", "side", "orderType", "qty", "timeInForce", "price"}
    \cup (IF sig.take_profit > 0 THEN {"takeProfit"} ELSE {})
    \cup (IF sig.stop_loss > 0 THEN {"stopLoss"} ELSE {})

\* the keys of order_params
OrderKeys(sig) ==
    {"category", "symbol", "side", "orderType", "qty", "timeInForce"}
    \cup (IF sig.order_type = "LIMIT" THEN {"price"} ELSE {})
    \cup (IF HasTakeProfit(sig) THEN {"takeProfit"} ELSE {})
    \cup (IF HasStopLoss(sig) THEN {"stopLoss"} ELSE {})

\* lines 225-242: the order request.  str(x) of a number is the number
OrderParams(sig, qty) ==
    [k \in OrderKeys(sig) |->
        CASE k = "category" -> "linear"
          [] k = "symbol" -> sig.symbol
          [] k = "side" -> Side(sig)
          [] k = "orderType" -> IF sig.order_type = "MARKET" THEN "Market" ELSE "Limit"
          [] k = "qty" -> qty
          [] k = "timeInForce" -> "GTC"
          [] k = "price" -> sig.entry_price[1]
          [] k = "takeProfit" -> sig.take_profit
          [] k = "stopLoss" -> sig.stop_loss]

\* an acceptance test that takes every non-negative code for success
AcceptedAnyCode(resp) == resp.retCode >= 0

\* result['retCode'] == 0
Accepted(resp) == resp.retCode = 0

\* lines 244-250: the dict returned after the submit call, or the exception
SubmitResult(resp, params) ==
    IF resp.kind = "raise" THEN Raise("FailedRequestError", VenueErrorMsg)
    ELSE IF "retCode" \notin resp.keys THEN Raise("KeyError", "'retCode'")
    ELSE Ok([success |-> Accepted(resp), result |-> resp, order_params |-> params])

\* an except clause that catches only the errors place_order raises itself
CaughtOwnErrors(e) == e.type = "Exception"

\* except Exception as e
Caught(e) == e.type \in ExceptionClasses

\* an except clause that reports success
ErrorResultAsSuccess(e) == [success |-> TRUE, error |-> e.msg]

\* return {'success': False, 'error': str(e)}
ErrorResult(e) == [success |-> FALSE, error |-> e.msg]

-----------------------------------------------------------------------------
(* BybitTrader.place_order as a state machine: one action per venue call,   *)
(* each with the code that follows the call up to the next one              *)

\* a venue call and the response it got
Call(op, args, resp) == [op |-> op, args |-> args, resp |-> resp]

\* the except clause: exception e ends the attempt
Finish(e) ==
    /\ pc' = "done"
    /\ exc' = Some(e)
    /\ outcome' = IF Caught(e) THEN "returned" ELSE "propagated"
    /\ result' = IF Caught(e) THEN ErrorResult(e) ELSE <<>>

\* a stored signal and the user's settings, before Execute is pressed
Init ==
    /\ pc = "idle"
    /\ signal \in SignalSpace
    /\ signal0 = signal
    /\ user_leverage \in LeverageChoices
    /\ user_risk \in RiskChoices
    /\ usdt_balance = 0
    /\ calls = <<>>
    /\ exc = None
    /\ outcome = "none"
    /\ result = <<>>
    /\ inbox = <<>>
    /\ config = None
    /\ user_data = EmptyDict
    /\ sent = <<>>
    /\ handled = None

\* place_order(signal, user_leverage, user_risk) is called, the first time or
\* again on the same signal object
PlaceOrderCall ==
    /\ pc \in {"idle", "done"}
    /\ pc' = "set_leverage"
    /\ signal0' = signal
    /\ usdt_balance' = 0
    /\ calls' = <<>>
    /\ exc' = None
    /\ outcome' = "none"
    /\ result' = <<>>
    /\ UNCHANGED <<signal, user_leverage, user_risk>>
    /\ UNCHANGED botvars

\* a set-leverage step whose failure ends the attempt
SetLeverageFatal ==
    /\ pc = "set_leverage"
    /\ \E resp \in LeverageResponses :
        /\ calls' = Append(calls, Call("set_leverage",
                                       SetLeverageArgs(signal.symbol, user_leverage),
                                       resp))
        /\ IF SetLeverageReturn(resp)
           THEN pc' = "get_wallet_balance" /\ UNCHANGED <<exc, outcome, result>>
           ELSE Finish(Raise("Exception", "Could not set leverage").exc)
    /\ UNCHANGED <<signal, signal0, user_leverage, user_risk, usdt_balance>>
    /\ UNCHANGED botvars

\* line 187: await self.set_leverage(...); its return value is dropped
SetLeverage ==
    /\ pc = "set_leverage"
    /\ \E resp \in LeverageResponses :
        calls' = Append(calls, Call("set_leverage",
                                    SetLeverageArgs(signal.symbol, user_leverage),
                                    resp))
    /\ pc' = "get_wallet_balance"
    /\ UNCHANGED <<signal, signal0, user_leverage, user_risk, usdt_balance,
                   exc, outcome, result>>
    /\ UNCHANGED botvars

\* lines 190-205, and for a LIMIT signal lines 216-219
GetWalletBalance ==
    /\ pc = "get_wallet_balance"
    /\ \E resp \in BalanceResponses :
        LET checked == CheckedBalance(get_account_balance(resp))
            qty == Quantity(signal, checked.val, user_risk, user_leverage)
        IN  /\ calls' = Append(calls, Call("get_wallet_balance",
                                           [accountType |-> "UNIFIED"], resp))
            /\ IF ~checked.ok
               THEN Finish(checked.exc) /\ UNCHANGED usdt_balance
               ELSE IF signal.order_type = "MARKET"
               THEN /\ pc' = "get_tickers"
                    /\ usdt_balance' = checked.val
                    /\ UNCHANGED <<exc, outcome, result>>
               ELSE IF ~qty.ok
               THEN Finish(qty.exc) /\ usdt_balance' = checked.val
               ELSE /\ pc' = "place_order"
                    /\ usdt_balance' = checked.val
                    /\ UNCHANGED <<exc, outcome, result>>
    /\ UNCHANGED <<signal, signal0, user_leverage, user_risk>>
    /\ UNCHANGED botvars

\* lines 208-219 for a MARKET signal
GetTickers ==
    /\ pc = "get_tickers"
    /\ \E resp \in TickerResponses :
        LET price == CurrentPrice(resp)
            sig == BackfillEntry(signal, price.val)
            qty == Quantity(sig, usdt_balance, user_risk, user_leverage)
        IN  /\ calls' = Append(calls, Call("get_tickers",
                                           [category |-> "linear",
                                            symbol |-> signal.symbol], resp))
            /\ IF ~price.ok
               THEN Finish(price.exc) /\ UNCHANGED signal
               ELSE IF ~qty.ok
               THEN Finish(qty.exc) /\ signal' = sig
               ELSE /\ pc' = "place_order"
                    /\ signal' = sig
                    /\ UNCHANGED <<exc, outcome, result>>
    /\ UNCHANGED <<signal0, user_leverage, user_risk, usdt_balance>>
    /\ UNCHANGED botvars

\* lines 221-254: the order request, the submit call and the returned dict
SubmitOrder ==
    /\ pc = "place_order"
    /\ \E resp \in SubmitResponses :
        LET qty == Quantity(signal, usdt_balance, user_risk, user_leverage)
            params == OrderParams(signal, qty.val)
            res == SubmitResult(resp, params)
        IN  /\ calls' = Append(calls, Call("place_order", params, resp))
            /\ IF ~res.ok
               THEN Finish(res.exc)
               ELSE /\ pc' = "done"
                    /\ outcome' = "returned"
                    /\ result' = res.val
                    /\ UNCHANGED exc
    /\ UNCHANGED <<signal, signal0, user_leverage, user_risk, usdt_balance>>
    /\ UNCHANGED botvars

Next ==
    \/ PlaceOrderCall
    \/ SetLeverage
    \/ GetWalletBalance
    \/ GetTickers
    \/ SubmitOrder

Spec == Init /\ [][Next]_vars

\* every venue call returns or raises in the end
Fairness ==
    /\ WF_vars(SetLeverage)
    /\ WF_vars(GetWalletBalance)
    /\ WF_vars(GetTickers)
    /\ WF_vars(SubmitOrder)

SpecLive == Init /\ [][Next]_vars /\ Fairness

-----------------------------------------------------------------------------
(* The message texts of the model: up to MaxLines lines joined by newlines  *)

Lines ==
    {<<"L", "O", "N", "G">>,
     <<"s", "h", "o", "r", "t">>,
     <<"B", "T", "C", "/", "U", "S", "D", "T">>,
     <<"/", "U", "S", "D", "T">>,
     <<"L", "O", "N", "G", "X", "/", "U", "S", "D", "T">>,
     <<"L", "I", "M", "I", "T", " ", "O", "R", "D", "E", "R">>,
     <<"L", "I", "M", "I", "T", " ", "O", "R", "D", "E", "R", " ", "4", "5", "0", "0", "0", ".", "5">>,
     <<"L", "E", "V", "E", "R", "A", "G", "E", ":", " ", "2", "0", "X">>,
     <<"T", "P", ":", " ", "1", ".", "2", ".", "3">>,
     <<"S", "L", ":", " ", "4", "8", "0", "0", "0">>,
     <<"U", "S", "E", " ", "3", "%", " ", "O", "F", " ", "C", "A", "P", "I", "T", "A", "L">>}

RECURSIVE JoinLines(_)
JoinLines(ls) ==
    IF Len(ls) = 1 THEN ls[1]
    ELSE JoinLines(SubSeq(ls, 1, Len(ls) - 1)) \o <<"\n">> \o ls[Len(ls)]

Texts == UNION {{JoinLines(ls) : ls \in [1..n -> Lines]} : n \in 1..MaxLines}

-----------------------------------------------------------------------------
(* TradingBot: /setup, /toggle and the message handler *)

\* ConfigManager.add_user: the entry of a new user, without the credentials
NewUser == [leverage |-> 10, risk |-> 5, auto_trade |-> FALSE]

\* len(context.user_data)
DictLen(d) == Cardinality(DOMAIN d)

\* context.user_data.get('signals', {})
StoredSignals(d) == IF "signals" \in DOMAIN d THEN d.signals ELSE EmptyDict

\* context.user_data['signals'][key] = sig, for user_data d with 'signals'
PutSignal(d, key, sig) ==
    [signals |-> [k \in DOMAIN d.signals \cup {key} |->
                    IF k = key THEN sig ELSE d.signals[k]]]

\* lines 438-440: the signal dict is created when missing
WithSignals(d) == IF "signals" \in DOMAIN d THEN d ELSE [signals |-> EmptyDict]

\* lines 438-441: the signal is stored under the key len(context.user_data),
\* read after the signal dict was created
StoreSignal(d, sig) == PutSignal(WithSignals(d), DictLen(WithSignals(d)), sig)

\* lines 433-436 and 444: the confirmation with its Execute button, whose
\* callback data is execute_<len(context.user_data)>, read before the store
Confirmation(d, sig) == [callback_data |-> <<"execute", DictLen(d)>>, signal |-> sig]

\* one message text, before any command
InitParse ==
    /\ pc = "idle"
    /\ signal = CHOOSE s \in SignalSpace : TRUE
    /\ signal0 = signal
    /\ user_leverage = 10
    /\ user_risk = 5
    /\ usdt_balance = 0
    /\ calls = <<>>
    /\ exc = None
    /\ outcome = "none"
    /\ result = <<>>
    /\ inbox \in {<<t>> : t \in Texts}
    /\ config = None
    /\ user_data = EmptyDict
    /\ sent = <<>>
    /\ handled = None

\* /setup: with two arguments and a non-empty balance snapshot the user is
\* added (again) with the default settings
SetupCommand ==
    /\ pc = "idle"
    /\ \E nargs \in 1..2, resp \in BalanceResponses :
        IF nargs = 2 /\ get_account_balance(resp).keys # {}
        THEN config' = Some(NewUser)
        ELSE UNCHANGED config
    /\ UNCHANGED <<inbox, user_data, sent, handled>>
    /\ UNCHANGED ordervars

\* /toggle
ToggleAutoTrade ==
    /\ pc = "idle"
    /\ IF config = None
       THEN UNCHANGED config
       ELSE config' = Some([config[1] EXCEPT !.auto_trade = ~config[1].auto_trade])
    /\ UNCHANGED <<inbox, user_data, sent, handled>>
    /\ UNCHANGED ordervars

\* lines 405-444 of handle_message for the message text and the value parsed
\* that parse_signal returns for it
HandleText(text, parsed) ==
    IF config = None \/ ~config[1].auto_trade
    THEN /\ handled' = Some([text |-> text, parsed |-> None, ran |-> FALSE])
         /\ UNCHANGED <<user_data, sent>>
    ELSE IF parsed = None
    THEN /\ handled' = Some([text |-> text, parsed |-> None, ran |-> TRUE])
         /\ UNCHANGED <<user_data, sent>>
    ELSE /\ handled' = Some([text |-> text, parsed |-> parsed, ran |-> TRUE])
         /\ user_data' = StoreSignal(user_data, parsed[1])
         /\ sent' = Append(sent, Confirmation(user_data, parsed[1]))

\* handle_message on the next text message
HandleMessage ==
    /\ pc = "idle"
    /\ inbox # <<>>
    /\ inbox' = Tail(inbox)
    /\ HandleText(Head(inbox), parse_signal(Head(inbox)))
    /\ UNCHANGED config
    /\ UNCHANGED ordervars

NextParse ==
    \/ SetupCommand
    \/ ToggleAutoTrade
    \/ HandleMessage

SpecParse == InitParse /\ [][NextParse]_vars

-----------------------------------------------------------------------------
(* TradingBot: signal messages, settings and the Execute button *)

\* the signal messages of the bot runs: two MARKET signals that differ in
\* leverage and risk only
BotTexts ==
    {JoinLines(<<KwLong, <<"B", "T", "C", "/", "U", "S", "D", "T">>,
                 <<"L", "E", "V", "E", "R", "A", "G", "E", ":", " ", "2", "0", "X">>,
                 <<"U", "S", "E", " ", "3", "%", " ", "O", "F", " ", "C", "A", "P", "I", "T", "A", "L">>>>),
     JoinLines(<<KwLong, <<"B", "T", "C", "/", "U", "S", "D", "T">>>>)}

(* TradingBot.handle_callback, lines 466-476: what the Execute handler      *)
(* shows for a result of place_order                                        *)
ExecuteReply(res) ==
    IF res.success
    THEN [text |-> "Trade Executed Successfully", detail |-> "order"]
    ELSE [text |-> "Trade failed",
          detail |-> IF "error" \in DOMAIN res THEN res.error ELSE "Unknown error"]

\* the number a float holds when it is whole, as place_order computes with it
Whole(d) == IF d.frac = 0 THEN d.num ELSE d.num \div (10 ^ d.frac)

\* the name of a symbol
SymbolName(chars) ==
    IF chars = <<"B", "T", "C", "U", "S", "D", "T">> THEN "BTCUSDT" ELSE "OTHER"

\* the TradingSignal object sig as place_order reads it
OrderSignal(sig) ==
    [direction |-> IF sig.direction = KwLong THEN "LONG" ELSE "SHORT",
     symbol |-> SymbolName(sig.symbol),
     order_type |-> sig.order_type,
     entry_price |-> IF sig.entry_price = None THEN None
                     ELSE Some(Whole(sig.entry_price[1])),
     take_profit |-> Whole(sig.take_profit),
     stop_loss |-> Whole(sig.stop_loss),
     leverage |-> sig.leverage,
     risk_percentage |-> Whole(sig.risk_percentage)]

\* ConfigManager.update_user_setting
update_user_setting(cfg, setting, value) ==
    IF cfg = None THEN cfg ELSE Some([cfg[1] EXCEPT ![setting] = value])

\* a set-up user with the default settings and the messages to come
InitBot ==
    /\ pc = "idle"
    /\ signal = CHOOSE s \in SignalSpace : TRUE
    /\ signal0 = signal
    /\ user_leverage = 10
    /\ user_risk = 5
    /\ usdt_balance = 0
    /\ calls = <<>>
    /\ exc = None
    /\ outcome = "none"
    /\ result = <<>>
    /\ inbox \in UNION {[1..n -> BotTexts] : n \in 1..MaxMessages}
    /\ config = Some(NewUser)
    /\ user_data = EmptyDict
    /\ sent = <<>>
    /\ handled = None

\* handle_callback, leverage_<n> (lines 491-494)
ChooseLeverage ==
    /\ pc = "idle"
    /\ \E lev \in LeverageChoices : config' = update_user_setting(config, "leverage", lev)
    /\ UNCHANGED <<inbox, user_data, sent, handled>>
    /\ UNCHANGED ordervars

\* handle_callback, risk_<n> (lines 505-508)
ChooseRisk ==
    /\ pc = "idle"
    /\ \E risk \in RiskChoices : config' = update_user_setting(config, "risk", risk)
    /\ UNCHANGED <<inbox, user_data, sent, handled>>
    /\ UNCHANGED ordervars

\* lines 455-464 for the Execute button of confirmation j, whose callback data
\* names signal_id, with the signals stored: 'Signal not found', or the call
\* of place_order with the stored signal and the user's leverage and risk
ExecutePress(j, signal_id, stored) ==
    IF signal_id \notin DOMAIN stored
    THEN /\ handled' = Some([pressed |-> j, found |-> FALSE, signal |-> None,
                             reply |-> "Signal not found"])
         /\ UNCHANGED ordervars
    ELSE /\ handled' = Some([pressed |-> j, found |-> TRUE,
                             signal |-> Some(stored[signal_id]),
                             reply |-> "none"])
         /\ pc' = "set_leverage"
         /\ signal' = OrderSignal(stored[signal_id])
         /\ signal0' = OrderSignal(stored[signal_id])
         /\ user_leverage' = config[1].leverage
         /\ user_risk' = config[1].risk
         /\ usdt_balance' = 0
         /\ calls' = <<>>
         /\ exc' = None
         /\ outcome' = "none"
         /\ result' = <<>>

\* handle_callback, execute_<n>: the Execute button of a confirmation sent
ExecuteCallback ==
    /\ pc = "idle"
    /\ config # None
    /\ \E j \in DOMAIN sent :
        ExecutePress(j, sent[j].callback_data[2], StoredSignals(user_data))
    /\ UNCHANGED <<inbox, config, user_data, sent>>

\* the stored signals with the entry price place_order wrote into the signal
\* object stored under signal_id
Backfilled(d, signal_id, price) ==
    IF price = None THEN d
    ELSE [signals |-> [d.signals EXCEPT ![signal_id].entry_price =
                                            Some(Decimal(price[1], 0))]]

\* lines 466-476: place_order has returned, the handler shows the result (of
\* the message shown, its first line is kept)
ExecuteDone ==
    /\ pc = "done"
    /\ handled # None
    /\ handled' = Some([handled[1] EXCEPT !.reply = ExecuteReply(result).text])
    /\ user_data' = Backfilled(user_data, sent[handled[1].pressed].callback_data[2],
                               signal.entry_price)
    /\ pc' = "idle"
    /\ signal' = (CHOOSE s \in SignalSpace : TRUE)
    /\ signal0' = signal'
    /\ user_leverage' = 10
    /\ user_risk' = 5
    /\ usdt_balance' = 0
    /\ calls' = <<>>
    /\ exc' = None
    /\ outcome' = "none"
    /\ result' = <<>>
    /\ UNCHANGED <<inbox, config, sent>>

NextBot ==
    \/ ToggleAutoTrade
    \/ ChooseLeverage
    \/ ChooseRisk
    \/ HandleMessage
    \/ ExecuteCallback
    \/ SetLeverage
    \/ GetWalletBalance
    \/ GetTickers
    \/ SubmitOrder
    \/ ExecuteDone

SpecBot == InitBot /\ [][NextBot]_vars

-----------------------------------------------------------------------------
(* Vocabulary of the claims about place_order *)

\* the calls of this attempt to venue operation op
CallsTo(op) == {i \in DOMAIN calls : calls[i].op = op}

\* the submit-order call was made in this attempt
Submitted == CallsTo("place_order") # {}

\* the venue accepted an order in this attempt
OrderPlaced ==
    \E i \in CallsTo("place_order") :
        /\ calls[i].resp.kind = "dict"
        /\ "retCode" \in calls[i].resp.keys
        /\ calls[i].resp.retCode = 0

\* a venue call failed: it raised, or returned a non-success code
CallFailed(c) ==
    \/ c.resp.kind = "raise"
    \/ c.resp.kind = "dict" /\ "retCode" \in c.resp.keys /\ c.resp.retCode # 0

\* place_order returned a dict saying failure
ReturnedFailure == outcome = "returned" /\ result.success = FALSE

\* the errors place_order raises about the balance
BalanceErrors == {"Could not fetch account balance", "No USDT balance found"}

\* the balance snapshot is empty, lacks a result, has no USDT entry or a USDT
\* wallet balance of zero
DegenerateSnapshot(resp) ==
    LET balance == get_account_balance(resp) IN
    \/ balance.keys = {}
    \/ "result" \notin balance.keys
    \/ balance.body = "no_usdt"
    \/ balance.body = "usdt" /\ balance.wallet = 0

-----------------------------------------------------------------------------
(* C1: when the balance snapshot is empty, lacks a result, has no USDT      *)
(* entry or holds a USDT balance of zero, the attempt returns success=false *)
(* with a balance error and the submit call is not made, whatever the       *)
(* order type and the outcome of set-leverage.                              *)
C1_DegenerateBalanceAborts ==
    \A i \in CallsTo("get_wallet_balance") :
        DegenerateSnapshot(calls[i].resp) =>
            /\ pc = "done"
            /\ ReturnedFailure
            /\ "error" \in DOMAIN result
            /\ result.error \in BalanceErrors
            /\ ~Submitted

\* a LIMIT attempt whose set-leverage call failed and whose USDT balance is zero
C1_Witness ==
    /\ pc = "done"
    /\ signal.order_type = "LIMIT"
    /\ \E i \in CallsTo("set_leverage") : CallFailed(calls[i])
    /\ \E i \in CallsTo("get_wallet_balance") :
        calls[i].resp.body = "usdt" /\ calls[i].resp.wallet = 0
    /\ ReturnedFailure

-----------------------------------------------------------------------------
(* C2: if any of the four venue calls (set leverage, get balance, get last  *)
(* price, submit order) raises or returns a non-success code, the attempt   *)
(* is aborted, the result carries an error string and no order is placed.   *)
C2_AnyVenueFailureAborts ==
    (pc = "done" /\ \E i \in DOMAIN calls : CallFailed(calls[i])) =>
        /\ ReturnedFailure
        /\ "error" \in DOMAIN result
        /\ ~OrderPlaced

-----------------------------------------------------------------------------
(* C3: place_order never propagates a fault: every attempt that ends        *)
(* returns a dict, and every exception raised at any step is returned as    *)
(* {success: False, error: <its message>}.                                  *)
C3_NoFaultPropagates ==
    /\ outcome # "propagated"
    /\ pc = "done" => outcome = "returned"
    /\ exc # None =>
        /\ pc = "done"
        /\ outcome = "returned"
        /\ result = [success |-> FALSE, error |-> exc[1].msg]

\* a LIMIT signal without entry price made the division raise TypeError
C3_Witness ==
    /\ pc = "done"
    /\ signal.order_type = "LIMIT"
    /\ signal.entry_price = None
    /\ exc # None
    /\ exc[1].type = "TypeError"
    /\ outcome = "returned"

-----------------------------------------------------------------------------
(* C4: every failed attempt yields an explicit reason: a result with        *)
(* success=false carries an error message, and the Execute handler shows    *)
(* it rather than the generic fallback.                                     *)
C4_FailureCarriesError ==
    ReturnedFailure =>
        /\ "error" \in DOMAIN result
        /\ ExecuteReply(result).detail # "Unknown error"

-----------------------------------------------------------------------------
(* C5: place_order returns success=true exactly when the submit call was    *)
(* made and the venue answered it with retCode 0; the result then holds the *)
(* raw venue response and the order request that was submitted.             *)
C5_SuccessIffAccepted ==
    outcome = "returned" =>
        /\ result.success = TRUE <=> OrderPlaced
        /\ result.success = TRUE =>
            /\ {"result", "order_params"} \subseteq DOMAIN result
            /\ \E i \in CallsTo("place_order") :
                /\ result.result = calls[i].resp
                /\ result.order_params = calls[i].args

\* an accepted order although set-leverage failed
C5_Witness ==
    /\ outcome = "returned"
    /\ result.success = TRUE
    /\ \E i \in CallsTo("set_leverage") : CallFailed(calls[i])

-----------------------------------------------------------------------------
(* C6: in every submitted order request takeProfit is present exactly when  *)
(* signal.take_profit > 0 and stopLoss exactly when signal.stop_loss > 0,   *)
(* each on its own; a value of 0 is never sent.                             *)
C6_TpSlOnlyWhenPositive ==
    \A i \in CallsTo("place_order") :
        LET req == calls[i].args IN
        /\ "takeProfit" \in DOMAIN req <=> signal0.take_profit > 0
        /\ "stopLoss" \in DOMAIN req <=> signal0.stop_loss > 0
        /\ "takeProfit" \in DOMAIN req => req.takeProfit = signal0.take_profit
        /\ "stopLoss" \in DOMAIN req => req.stopLoss = signal0.stop_loss

\* a submitted request with a take-profit and without a stop-loss
C6_Witness ==
    \E i \in CallsTo("place_order") :
        /\ "takeProfit" \in DOMAIN calls[i].args
        /\ "stopLoss" \notin DOMAIN calls[i].args
        /\ signal0.stop_loss = 0

-----------------------------------------------------------------------------
(* C7: place_order changes nothing of the signal but entry_price, and that  *)
(* only for a MARKET order, to the last-traded price the venue returned.    *)
C7_OnlyEntryPriceBackfilled ==
    /\ [signal EXCEPT !.entry_price = None] = [signal0 EXCEPT !.entry_price = None]
    /\ signal.order_type = "LIMIT" => signal.entry_price = signal0.entry_price
    /\ signal.entry_price # signal0.entry_price =>
        \E i \in CallsTo("get_tickers") :
            /\ calls[i].resp.body = "price"
            /\ signal.entry_price = Some(calls[i].resp.lastPrice)

\* a MARKET attempt that ended with the entry price filled in
C7_Witness ==
    /\ pc = "done"
    /\ signal.order_type = "MARKET"
    /\ signal0.entry_price = None
    /\ signal.entry_price = Some(MaxPrice)

-----------------------------------------------------------------------------
(* Vocabulary of the sizing claim *)

\* the USDT wallet balance the venue reported in this attempt
ReportedBalance ==
    LET i == CHOOSE i \in CallsTo("get_wallet_balance") : TRUE
    IN  calls[i].resp.wallet

\* the price the claim sizes with
SizingPrice ==
    IF signal0.order_type = "MARKET"
    THEN LET i == CHOOSE i \in CallsTo("get_tickers") : TRUE
         IN  calls[i].resp.lastPrice
    ELSE signal0.entry_price[1]

\* q is a nearest multiple of 10^-6 to (a / 100) / d, i.e. |q * d - m * a| <= d / 2
\* with m = 10^6 / 100, evaluated by parts to stay within 32 bits
NearestQty(q, a, d) ==
    LET m == QtyScale \div PercentBase
        coarse == (q \div m) * d - a
        diff == m * coarse + (q % m) * d
    IN  /\ coarse >= -d
        /\ coarse <= d
        /\ 2 * diff <= d
        /\ 2 * diff >= -d

-----------------------------------------------------------------------------
(* C8: the quantity of every submitted order is                             *)
(* (balance * riskPercentage / 100 * leverage) / entryPrice rounded to 6    *)
(* decimals, with the USDT wallet balance, the arguments user_leverage and  *)
(* user_risk, and the venue's last price (MARKET) or the parsed price       *)
(* (LIMIT); balance 1000, risk 5, leverage 10, price 50000 give 0.01.       *)
C8_QtyIsRoundedSizing ==
    \A i \in CallsTo("place_order") :
        /\ SizingPrice > 0
        /\ NearestQty(calls[i].args.qty,
                      ReportedBalance * user_risk * user_leverage, SizingPrice)
        /\ (ReportedBalance = 1000 /\ user_risk = 5 /\ user_leverage = 10
            /\ SizingPrice = 50000) => calls[i].args.qty = 10000

\* the sizing example of the specification, submitted as a MARKET order
C8_Witness ==
    \E i \in CallsTo("place_order") :
        /\ signal0.order_type = "MARKET"
        /\ ReportedBalance = 1000
        /\ user_risk = 5
        /\ user_leverage = 10
        /\ SizingPrice = 50000
        /\ calls[i].args.qty = 10000

-----------------------------------------------------------------------------
(* Vocabulary of the claims about parse_signal; u is the text in upper case *)

\* a direction keyword stands at index i
KeywordAt(u, i) == MatchAt(u, i, KwLong) \/ MatchAt(u, i, KwShort)

\* the text contains a direction keyword
HasKeyword(u) == \E i \in 1..Len(u) : KeywordAt(u, i)

\* the first direction keyword of the text
FirstKeyword(u) ==
    LET i == CHOOSE i \in 1..Len(u) :
                KeywordAt(u, i) /\ \A j \in 1..(i - 1) : ~KeywordAt(u, j)
    IN  IF MatchAt(u, i, KwLong) THEN KwLong ELSE KwShort

\* /USDT stands at index j, right after an alphanumeric character: the end
\* of a <TOKEN>/USDT pattern
PatternAt(u, j) == j > 1 /\ IsAlnum(u[j - 1]) /\ MatchAt(u, j, SlashUsdt)

\* the text contains a <TOKEN>/USDT pattern
HasPattern(u) == \E j \in 1..Len(u) : PatternAt(u, j)

\* the whole base token of the first <TOKEN>/USDT of the text
FirstToken(u) ==
    LET j == CHOOSE j \in 1..Len(u) :
                PatternAt(u, j) /\ \A l \in 1..(j - 1) : ~PatternAt(u, l)
        i == CHOOSE i \in 1..(j - 1) :
                /\ \A k \in i..(j - 1) : IsAlnum(u[k])
                /\ i > 1 => ~IsAlnum(u[i - 1])
    IN  SubSeq(u, i, j - 1)

\* the text of the message handle_message ran on, as sent and in upper case
HandledText == handled[1].text
HandledUpper == Upper(handled[1].text)

-----------------------------------------------------------------------------
(* C9: for every text with a direction keyword and a <TOKEN>/USDT pattern   *)
(* parse_signal returns a signal whose direction is the first direction     *)
(* keyword of the text and whose symbol is the base token of the first      *)
(* <TOKEN>/USDT followed by USDT, whatever else the text contains.          *)
C9_DirectionAndSymbolParsed ==
    handled # None =>
        LET u == HandledUpper
            parsed == parse_signal(HandledText)
        IN  (HasKeyword(u) /\ HasPattern(u)) =>
                /\ parsed # None
                /\ parsed[1].direction = FirstKeyword(u)
                /\ parsed[1].symbol = FirstToken(u) \o Usdt

-----------------------------------------------------------------------------
(* C10: for every text without a direction keyword or without a             *)
(* <TOKEN>/USDT pattern parse_signal returns None and raises nothing, and   *)
(* handle_message stores no signal and sends no confirmation for it.        *)
C10_NotASignal ==
    handled # None =>
        LET u == HandledUpper
            body == ParseBody(HandledText)
        IN  (~HasKeyword(u) \/ ~HasPattern(u)) =>
            /\ body = Ok(None)
            /\ NoneOnError(body) = None
            /\ handled[1].parsed = None
            /\ user_data = EmptyDict
            /\ sent = <<>>

\* handle_message parsed a text with a direction keyword and /USDT, but no
\* token before /USDT
C10_Witness ==
    /\ handled # None
    /\ handled[1].ran
    /\ HasKeyword(HandledUpper)
    /\ Contains(HandledUpper, SlashUsdt)
    /\ ~HasPattern(HandledUpper)
    /\ sent = <<>>

-----------------------------------------------------------------------------
(* C11: a malformed numeric token after an optional keyword (such as 1.2.3  *)
(* after TP:) leaves only that field at its default: no exception ends the  *)
(* parse, and a text with a direction and a symbol still yields a signal.   *)
C11_MalformedNumberFallsBack ==
    handled # None =>
        LET u == HandledUpper
            body == ParseBody(HandledText)
        IN  (HasKeyword(u) /\ HasPattern(u)) =>
                /\ body.ok
                /\ body.val # None
                /\ value_match(u, KwTp, FALSE, DigitOrDot) = Some(<<"1", ".", "2", ".", "3">>) =>
                        body.val[1].take_profit = DefaultSignal.take_profit

-----------------------------------------------------------------------------
(* Vocabulary of the claim about the order of the lines *)

\* text.split('\n')
RECURSIVE SplitLines(_)
SplitLines(text) ==
    IF \A i \in 1..Len(text) : text[i] # "\n" THEN <<text>>
    ELSE <<SubSeq(text, 1, FirstStop(text, {i \in 1..Len(text) : text[i] = "\n"}) - 1)>>
         \o SplitLines(SubSeq(text,
                              FirstStop(text, {i \in 1..Len(text) : text[i] = "\n"}) + 1,
                              Len(text)))

\* a direction line: LONG or SHORT and nothing else
IsDirectionLine(l) == Upper(l) \in {KwLong, KwShort}

\* a symbol line: <SYMBOL>/USDT and nothing else
IsSymbolLine(l) ==
    /\ Len(l) > Len(SlashUsdt)
    /\ MatchAt(Upper(l), Len(l) - Len(SlashUsdt) + 1, SlashUsdt)
    /\ \A k \in 1..(Len(l) - Len(SlashUsdt)) : IsAlnum(Upper(l)[k])

\* the lines hold one direction line and one symbol line; the others are
\* optional keyword lines or unrecognized lines
Documented(ls) ==
    /\ Cardinality({i \in 1..Len(ls) : IsDirectionLine(ls[i])}) = 1
    /\ Cardinality({i \in 1..Len(ls) : IsSymbolLine(ls[i])}) = 1

\* the lines ls in the order f
Reordered(ls, f) == [i \in 1..Len(ls) |-> ls[f[i]]]

-----------------------------------------------------------------------------
(* C12: every permutation of the lines of a signal text built from one      *)
(* direction line, one symbol line and optional or unrecognized lines       *)
(* parses to a field-equal signal.                                          *)
C12_OrderInsensitive ==
    (handled # None /\ Documented(SplitLines(HandledText))) =>
        \A f \in Permutations(1..Len(SplitLines(HandledText))) :
            parse_signal(JoinLines(Reordered(SplitLines(HandledText), f)))
                = parse_signal(HandledText)

-----------------------------------------------------------------------------
(* Vocabulary of the claims about the steps of an attempt *)

\* the place of a venue operation in the order of the pipeline
Rank(op) ==
    CASE op = "set_leverage" -> 1
      [] op = "get_wallet_balance" -> 2
      [] op = "get_tickers" -> 3
      [] op = "place_order" -> 4

\* the balance call returned a USDT balance that is not zero
BalanceSucceeded(c) ==
    /\ c.resp.kind = "dict"
    /\ "result" \in c.resp.keys
    /\ c.resp.body = "usdt"
    /\ c.resp.wallet # 0

\* the price call returned a success code and a last price
PriceSucceeded(c) ==
    /\ c.resp.kind = "dict"
    /\ "retCode" \in c.resp.keys
    /\ c.resp.retCode = 0
    /\ c.resp.body = "price"

\* the calls that have returned when place_order stands at position p
ReturnedAt(p) ==
    CASE p = "idle" -> {0}
      [] p = "set_leverage" -> {0}
      [] p = "get_wallet_balance" -> {1}
      [] p = "get_tickers" -> {2}
      [] p = "place_order" -> {2, 3}
      [] p = "done" -> {2, 3, 4}

-----------------------------------------------------------------------------
(* C13: in one attempt the venue calls are made in the order set-leverage,  *)
(* get-balance, get-last-price (MARKET only), submit-order, each at most    *)
(* once and each after the one before has returned; submit-order is made    *)
(* only after the balance check and the price resolution succeeded.         *)
C13_CallsInFixedOrder ==
    /\ \A i, j \in DOMAIN calls : i < j => Rank(calls[i].op) < Rank(calls[j].op)
    /\ \A i \in DOMAIN calls : i <= 2 => Rank(calls[i].op) = i
    /\ Len(calls) \in ReturnedAt(pc)
    /\ CallsTo("get_tickers") # {} => signal0.order_type = "MARKET"
    /\ Submitted =>
        /\ \E i \in CallsTo("get_wallet_balance") : BalanceSucceeded(calls[i])
        /\ signal0.order_type = "MARKET" =>
            \E i \in CallsTo("get_tickers") : PriceSucceeded(calls[i])
        /\ signal0.order_type = "LIMIT" => signal0.entry_price # None

\* a MARKET attempt that made all four calls
C13_Witness ==
    /\ pc = "done"
    /\ Len(calls) = 4
    /\ calls[3].op = "get_tickers"
    /\ calls[4].op = "place_order"

-----------------------------------------------------------------------------
(* Vocabulary of the claim about the end of an attempt *)

\* the submit call returned acceptance and the attempt reports success
EndedAccepted == OrderPlaced /\ outcome = "returned" /\ result.success = TRUE

\* the submit call returned a non-success code and the attempt reports failure
EndedRejected ==
    /\ \E i \in CallsTo("place_order") :
        /\ calls[i].resp.kind = "dict"
        /\ "retCode" \in calls[i].resp.keys
        /\ calls[i].resp.retCode # 0
    /\ ReturnedFailure
    /\ exc = None

\* a step raised and the attempt reports the failure
EndedAborted == exc # None /\ ReturnedFailure /\ "error" \in DOMAIN result

\* exactly one of the three terminal outcomes
OneOutcome ==
    /\ EndedAccepted \/ EndedRejected \/ EndedAborted
    /\ ~(EndedAccepted /\ EndedRejected)
    /\ ~(EndedAccepted /\ EndedAborted)
    /\ ~(EndedRejected /\ EndedAborted)

\* the balance, price or submit call failed in this attempt
LaterStepFailed ==
    \E i \in DOMAIN calls : calls[i].op # "set_leverage" /\ CallFailed(calls[i])

-----------------------------------------------------------------------------
-----------------------------------------------------------------------------
(* Vocabulary of the claim about a failed set-leverage step *)

\* set_leverage returned False: the venue call raised or gave no success code
LeverageFailed(c) == c.op = "set_leverage" /\ ~SetLeverageReturn(c.resp)

\* the dict place_order returns for the value or the exception r
ResultOf(r) == IF r.ok THEN r.val ELSE ErrorResult(r.exc)

\* lines 216-254 for the signal sig and the quantity qty, on the calls cs made
\* after set-leverage: the last of them is the submit call
SubmitOutcome(sig, qty, cs) ==
    IF ~qty.ok THEN ErrorResult(qty.exc)
    ELSE ResultOf(SubmitResult(cs[Len(cs)].resp, OrderParams(sig, qty.val)))

\* lines 208-254 of a MARKET attempt with balance bal and the price read
PriceOutcome(sig, bal, price, cs) ==
    IF ~price.ok THEN ErrorResult(price.exc)
    ELSE SubmitOutcome(BackfillEntry(sig, price.val),
                       Quantity(BackfillEntry(sig, price.val), bal,
                                user_risk, user_leverage),
                       cs)

\* lines 190-254 with the balance checked
BalanceOutcome(sig, checked, cs) ==
    IF ~checked.ok THEN ErrorResult(checked.exc)
    ELSE IF sig.order_type = "MARKET"
    THEN PriceOutcome(sig, checked.val, CurrentPrice(cs[2].resp), cs)
    ELSE SubmitOutcome(sig, Quantity(sig, checked.val, user_risk, user_leverage), cs)

\* what lines 190-254 return for the signal sig and the calls cs made after
\* set-leverage: the balance, price and submit steps alone
LaterOutcome(sig, cs) ==
    BalanceOutcome(sig, CheckedBalance(get_account_balance(cs[1].resp)), cs)

-----------------------------------------------------------------------------
(* C15: a failed set-leverage step does not end the attempt: place_order    *)
(* goes on to the balance fetch, the price resolution and the submission,   *)
(* and its result is the one the later steps alone determine.               *)
C15_LeverageFailureNonFatal ==
    /\ (pc # "set_leverage" /\ calls # <<>> /\ LeverageFailed(calls[1])) =>
            pc \in {"get_wallet_balance", "get_tickers", "place_order", "done"}
    /\ (pc = "done" /\ LeverageFailed(calls[1])) =>
        /\ CallsTo("get_wallet_balance") # {}
        /\ outcome = "returned"
        /\ result = LaterOutcome(signal0, Tail(calls))

\* an order accepted although the set-leverage call returned a non-success code
C15_Witness ==
    /\ pc = "done"
    /\ calls[1].resp.kind = "dict"
    /\ "retCode" \in calls[1].resp.keys
    /\ calls[1].resp.retCode # 0
    /\ OrderPlaced
    /\ result.success = TRUE

-----------------------------------------------------------------------------
(* C16: a LIMIT attempt makes no price query, sizes with the parsed         *)
(* entry_price and sends that price; a MARKET attempt queries the last      *)
(* price once, ends with an error and without submitting when the query     *)
(* returns a non-success code, and sends no price field.                    *)
C16_PriceByOrderType ==
    /\ signal0.order_type = "LIMIT" =>
        /\ CallsTo("get_tickers") = {}
        /\ \A i \in CallsTo("place_order") :
            /\ "price" \in DOMAIN calls[i].args
            /\ calls[i].args.price = signal0.entry_price[1]
            /\ calls[i].args.qty = Qty(ReportedBalance, user_risk, user_leverage,
                                       signal0.entry_price[1])
    /\ signal0.order_type = "MARKET" =>
        /\ Cardinality(CallsTo("get_tickers")) <= 1
        /\ (pc \in {"place_order", "done"}
            /\ \E i \in CallsTo("get_wallet_balance") : BalanceSucceeded(calls[i]))
                => Cardinality(CallsTo("get_tickers")) = 1
        /\ \A i \in CallsTo("get_tickers") :
            (calls[i].resp.kind = "dict" /\ "retCode" \in calls[i].resp.keys
             /\ calls[i].resp.retCode # 0) =>
                /\ pc = "done"
                /\ ReturnedFailure
                /\ "error" \in DOMAIN result
                /\ ~Submitted
        /\ \A i \in CallsTo("place_order") : "price" \notin DOMAIN calls[i].args

\* a MARKET attempt ended by a price query that returned a non-success code
\* beside a price
C16_Witness ==
    /\ pc = "done"
    /\ signal0.order_type = "MARKET"
    /\ \E i \in CallsTo("get_tickers") :
        /\ calls[i].resp.kind = "dict"
        /\ calls[i].resp.retCode # 0
        /\ calls[i].resp.body = "price"
    /\ ~Submitted

-----------------------------------------------------------------------------
(* Vocabulary of the claims about the Execute button *)

\* the last handler run was the Execute button of a confirmation
ExecutePressed == handled # None /\ "pressed" \in DOMAIN handled[1]

\* the confirmation whose Execute button was pressed
PressedConfirmation == sent[handled[1].pressed]

-----------------------------------------------------------------------------
(* C17: pressing Execute on a confirmation places the order for the signal  *)
(* parsed from the message that produced the confirmation: the signal is    *)
(* found, and it is that signal and no other.                               *)
C17_ExecuteRunsConfirmedSignal ==
    ExecutePressed =>
        /\ handled[1].found
        /\ handled[1].signal = Some(PressedConfirmation.signal)
        /\ pc # "idle" => signal0 = OrderSignal(PressedConfirmation.signal)

-----------------------------------------------------------------------------
(* C18: every order request place_order submits has a quantity greater      *)
(* than zero, for every non-zero USDT balance (a very small or a negative   *)
(* one as well), risk, leverage and entry price, after the rounding.        *)
C18_QuantityPositive ==
    \A i \in CallsTo("place_order") : calls[i].args.qty > 0

-----------------------------------------------------------------------------
(* Vocabulary of the claim about a LIMIT signal without a usable price *)

\* the signal of the attempt is a LIMIT signal whose entry_price is unset or 0
LimitWithoutPrice ==
    /\ signal0.order_type = "LIMIT"
    /\ signal0.entry_price \in {None, Some(0)}

\* a signal text that says LIMIT ORDER with no number after it, and one with 0
BareLimitText ==
    JoinLines(<<KwLong, <<"B", "T", "C", "/", "U", "S", "D", "T">>, KwLimitOrder>>)
ZeroLimitText ==
    JoinLines(<<KwLong, <<"B", "T", "C", "/", "U", "S", "D", "T">>,
                KwLimitOrder \o <<" ", "0">>>>)

\* what parse_signal makes of them
BareLimitParsed == parse_signal(BareLimitText)
ZeroLimitParsed == parse_signal(ZeroLimitText)

-----------------------------------------------------------------------------
(* C19: parse_signal gives a LIMIT signal without entry_price for a text    *)
(* with LIMIT ORDER and no number (and one with entry_price 0 for LIMIT     *)
(* ORDER 0); place_order on a LIMIT signal whose entry_price is unset or    *)
(* zero never submits an order and ends with success=false and an error,    *)
(* after the set-leverage and balance calls.                                *)
C19_LimitWithoutPriceNeverSubmits ==
    /\ BareLimitParsed # None
    /\ BareLimitParsed[1].order_type = "LIMIT"
    /\ BareLimitParsed[1].entry_price = None
    /\ ZeroLimitParsed # None
    /\ ZeroLimitParsed[1].order_type = "LIMIT"
    /\ ZeroLimitParsed[1].entry_price = Some(Decimal(0, 0))
    /\ {OrderSignal(BareLimitParsed[1]), OrderSignal(ZeroLimitParsed[1])} \subseteq SignalSpace
    /\ (pc # "idle" /\ LimitWithoutPrice) =>
        /\ ~Submitted
        /\ CallsTo("get_tickers") = {}
        /\ pc = "done" =>
            /\ ReturnedFailure
            /\ "error" \in DOMAIN result
            /\ Len(calls) = 2
            /\ calls[1].op = "set_leverage"
            /\ calls[2].op = "get_wallet_balance"

\* place_order ran on the signal parsed from the LIMIT ORDER text without a
\* number: the balance was fine and the division raised TypeError
C19_Witness ==
    /\ pc = "done"
    /\ signal0 = OrderSignal(BareLimitParsed[1])
    /\ BalanceSucceeded(calls[2])
    /\ exc # None
    /\ exc[1].type = "TypeError"
    /\ ReturnedFailure

-----------------------------------------------------------------------------
(* Vocabulary of the claim about the leverage and risk of the signal *)

\* the signal without its leverage and risk_percentage
WithoutLeverageAndRisk(sig) == [sig EXCEPT !.leverage = 0, !.risk_percentage = 0]

-----------------------------------------------------------------------------
(* C20: the leverage and risk_percentage parsed from the text do not reach  *)
(* the venue: the set-leverage call and the submitted request are those of  *)
(* the signal without these two fields, made with the leverage and risk     *)
(* the user has stored when the Execute callback is handled.                *)
C20_SignalLeverageUnused ==
    (pc # "idle" /\ ExecutePressed) =>
        /\ user_leverage = config[1].leverage
        /\ user_risk = config[1].risk
        /\ \A i \in CallsTo("set_leverage") :
            calls[i].args = SetLeverageArgs(signal0.symbol, config[1].leverage)
        /\ \A i \in CallsTo("place_order") :
            calls[i].args =
                OrderParams(WithoutLeverageAndRisk(signal),
                            Qty(ReportedBalance, config[1].risk, config[1].leverage,
                                SizingPrice))

\* an order submitted for the signal that says leverage 20 and risk 3, sized
\* with the user's leverage 10 and risk 5
C20_Witness ==
    /\ pc = "done"
    /\ ExecutePressed
    /\ signal0.leverage = 20
    /\ signal0.risk_percentage = 3
    /\ config[1].leverage = 10
    /\ config[1].risk = 5
    /\ \E i \in CallsTo("place_order") :
        /\ ReportedBalance = MaxBalance
        /\ SizingPrice = MaxPrice
        /\ calls[i].args.qty = Qty(MaxBalance, 5, 10, MaxPrice)
        /\ calls[i].args.qty # Qty(MaxBalance, 3, 20, MaxPrice)

-----------------------------------------------------------------------------
(* Vocabulary of the claim about auto_trade *)

\* the user's auto_trade setting is on
AutoTradeOn == config # None /\ config[1].auto_trade

\* this step makes the submit-order call
SubmitStep ==
    /\ Len(calls') = Len(calls) + 1
    /\ calls'[Len(calls')].op = "place_order"

\* this step handles a text message
MessageStep == inbox' # inbox

\* no submit-order call is made while auto_trade is off
SubmitsOnlyWhileOn == SubmitStep => AutoTradeOn

\* a message handled while auto_trade is off or the user is not set up stores
\* no signal
OffMessageStoresNothing ==
    (MessageStep /\ ~AutoTradeOn) => (user_data' = user_data /\ sent' = sent)

-----------------------------------------------------------------------------
(* C21: an order is submitted to the venue only while the user's auto_trade *)
(* setting is on, also when it was switched off between the confirmation    *)
(* and the Execute press, and a message received while auto_trade is off or *)
(* the user is not set up stores no signal.                                 *)
C21_SubmitOnlyWhileAutoTradeOn ==
    [][SubmitsOnlyWhileOn /\ OffMessageStoresNothing]_vars

=============================================================================
